---- MODULE Spec2Model ----
(***************************************************************************)
(* FAR Reference Book chatbot: the query-answering pipeline (rate limiter, *)
(* retriever, context assembler, orchestrator, conversation store) and the *)
(* chat widget that drives it.                                             *)
(*                                                                         *)
(* The widget is modelled from its TypeScript source.  The backend         *)
(* (backend/api, backend/services) is not part of the source tree: only    *)
(* its call sites, request models and data flow are documented, so its     *)
(* components are modelled from the design document.                       *)
(*                                                                         *)
(* Texts are sequences of word lengths: <<2, 3>> is a two-letter word, a   *)
(* blank and a three-letter word (6 characters).  A cut at a whitespace    *)
(* boundary keeps whole words.  Scores are percentages (0..100).           *)
(***************************************************************************)
EXTENDS Integers, Sequences, FiniteSets, TLC

VARIABLES
    now,          \* the clock of the server, in minutes
    config,       \* configuration surface: rate limit policy, retrieval, budget
    hitLog,       \* Rate Limiter: conversation -> timestamps of recorded hits
    checkLog,     \* history: every admission decision, in the order taken
    altLog,       \* the Rate Limiter of a second run (isolation check)
    isoLog,       \* history: the decisions of both runs for conversation B
    workload,     \* the environment: how many questions, which inputs
    run,          \* Orchestrator: the state of every question's run
    store,        \* Conversation Store: the persisted messages, in insert order
    isOpen,             \* ChatWidget: the chat window is shown
    conversationId,     \* ChatWidget: the current conversation, or Null
    messages,           \* ChatWidget: the displayed messages
    isLoading,          \* ChatWidget: a request is shown as in progress
    error,              \* ChatWidget: the displayed error, or Null
    streamingMessageId, \* ChatWidget: the message shown as streaming, or 0
    isMinimized,        \* ChatWidget: the chat window is collapsed to its header
    isStreamingActive,  \* ChatMessage: the streaming animation is running
    shownInFull,        \* history: the streaming message was shown in full
    voiceOutputEnabled, \* ChatWindow: the speaker toggle
    lastSpokenMessageIdRef,  \* ChatWindow: the message spoken last, or 0
    previousMessageCountRef, \* ChatWindow: messages.length at the last render
    spoken,             \* history: the messages handed to the speech synthesis
    isPlaying,          \* TextToSpeech: the reader shows Playing
    isPaused,           \* TextToSpeech: the reader shows Paused
    speechRate,         \* TextToSpeech: the selected speed, in percent
    speechSynthesis,    \* the browser's speech synthesis: its utterance and flags
    timers,             \* the restarts scheduled by setTimeout, oldest first
    transcript,         \* voice input: the words the recognition heard
    isListening,        \* ChatWindow: the recognition is running
    inputValue,         \* ChatWindow: the text of the input field, as symbols
    configuredBackendUrl,  \* chatApi: the configured backend URL, or Null
    baseUrl,            \* chatApi: the active base URL
    preferredBaseUrls,  \* chatApi: the base URLs in the order they are tried
    calls,              \* chatApi: the fetchWithFallback calls made so far
    owed,               \* history: the response received with the speaker on
                        \* and not read aloud yet, or 0
    localStorage,       \* the browser's far_conversation_id, or Null
    pending,            \* the widget's calls awaiting their response
    server              \* the backend as the widget sees it

widgetVars ==
    <<isOpen, conversationId, messages, isLoading, error, streamingMessageId,
      isStreamingActive, localStorage, pending, server, isMinimized, shownInFull,
      voiceOutputEnabled, lastSpokenMessageIdRef, previousMessageCountRef,
      spoken, owed>>

\* The page around the chat widget: the audio reader.
readerVars == <<isPlaying, isPaused, speechRate, speechSynthesis, timers>>

\* The voice input of the chat window.
voiceInputVars == <<transcript, isListening, inputValue>>

\* The API client.
apiVars == <<configuredBackendUrl, baseUrl, preferredBaseUrls, calls>>

pageVars == <<readerVars, voiceInputVars, apiVars>>

\* Everything that runs in the browser.
browserVars == <<widgetVars, pageVars>>

vars ==
    <<now, config, hitLog, checkLog, altLog, isoLog, workload, run, store,
      browserVars>>

limiterVars == <<hitLog, checkLog>>
isoVars == <<altLog, isoLog>>
pipelineVars == <<workload, run, store>>

\* ---------------------------------------------------------------- bounds

MaxTime == 4
MaxChecks == 4
MaxRequestsBound == 2
MaxWindowBound == 2
MaxRuns == 3
MaxBudget == 6

\* ------------------------------------------------------ program constants

DefaultMaxRequests == 20
DefaultWindowMinutes == 60
DefaultTopK == 5
DefaultScoreThreshold == 50
ContentMax == 500
SelectedMax == 2000
MaxAttempts == 3

Conversations == {"A", "B"}

RunIds == 1..MaxRuns

\* The limiter and isolation specifications receive no question.
NoWorkload == [questions |-> 0, contents |-> {}, selected |-> {}, results |-> {}]

\* A run that no question has started yet.
IdleRun ==
    [state |-> "Idle", conv |-> "A", content |-> 0, selected |-> <<>>,
     checked |-> FALSE, attempts |-> 0, candidates |-> <<>>, context |-> <<>>,
     sources |-> <<>>, answer |-> "none", why |-> "none", found |-> -1,
     last |-> "none", delay |-> 0,
     calls |-> {}]

\* ------------------------------------------------------------- ChatWidget

Null == "null"

\* The backend before any conversation exists.
FreshServer ==
    [created |-> {}, history |-> [c \in Conversations |-> <<>>], nextId |-> 1,
     calls |-> 0]

\* The component's state when it mounts (the useState initial values).
Mounted ==
    /\ isOpen = FALSE
    /\ conversationId = Null
    /\ messages = <<>>
    /\ isLoading = FALSE
    /\ error = Null
    /\ streamingMessageId = 0
    /\ isStreamingActive = FALSE
    /\ pending = {}
    /\ isMinimized = FALSE
    /\ shownInFull = FALSE
    /\ voiceOutputEnabled = FALSE
    /\ lastSpokenMessageIdRef = 0
    /\ previousMessageCountRef = 0
    /\ spoken = {}
    /\ owed = 0

\* No utterance is queued or spoken.
NoUtterance == 0

\* TextToSpeech when it mounts, with an idle speech synthesis.
ReaderMounted ==
    /\ isPlaying = FALSE
    /\ isPaused = FALSE
    /\ speechRate = 100
    /\ speechSynthesis = [utterance |-> NoUtterance, speaking |-> FALSE,
                          paused |-> FALSE, interrupted |-> FALSE]
    /\ timers = <<>>

\* No voice input is in progress and the input field is empty.
VoiceInputIdle ==
    /\ transcript = <<>>
    /\ isListening = FALSE
    /\ inputValue = <<>>

\* DEFAULT_LOCAL_BACKEND_URLS, as written: its last entry repeats the second.
DEFAULT_LOCAL_BACKEND_URLS ==
    <<"http://localhost:", "http://127.0.0.1:8080", "http://localhost:8080",
      "http://127.0.0.1:8080">>

\* Array.prototype.includes.
includes(urls, url) == \E i \in DOMAIN urls : urls[i] = url

RECURSIVE PushMissing(_, _, _)
\* The loop of buildPreferredBaseUrls from entry i on: a fallback URL is
\* pushed unless the list includes it.
PushMissing(urls, fallbacks, i) ==
    IF i > Len(fallbacks)
    THEN urls
    ELSE PushMissing(IF includes(urls, fallbacks[i]) THEN urls
                     ELSE Append(urls, fallbacks[i]),
                     fallbacks, i + 1)

\* The same loop without the includes test.
buildPreferredBaseUrls_PushAll(initial) ==
    (IF initial # "" THEN <<initial>> ELSE <<>>) \o DEFAULT_LOCAL_BACKEND_URLS

\* buildPreferredBaseUrls: the initial URL, when it is not empty, and then
\* the default URLs that are not in the list yet.
buildPreferredBaseUrls(initial) ==
    PushMissing(IF initial # "" THEN <<initial>> ELSE <<>>,
                DEFAULT_LOCAL_BACKEND_URLS, 1)

\* API_BASE_URL: the configured URL, or else the first default.
API_BASE_URL(configured) ==
    IF configured # Null THEN configured ELSE DEFAULT_LOCAL_BACKEND_URLS[1]

\* The ChatAPI constructor.
ApiConstructed ==
    /\ preferredBaseUrls = buildPreferredBaseUrls(API_BASE_URL(configuredBackendUrl))
    /\ baseUrl = preferredBaseUrls[1]
    /\ calls = <<>>

PageLoaded ==
    /\ ReaderMounted
    /\ VoiceInputIdle
    /\ configuredBackendUrl = Null
    /\ ApiConstructed

\* The page on its first visit.
WidgetMounted ==
    /\ Mounted
    /\ PageLoaded
    /\ localStorage = Null
    /\ server = FreshServer

\* ------------------------------------------------------------ Rate Limiter

\* A hit recorded at h lies within the trailing window of w minutes at time t.
InWindow(h, t, w) == t - h < w

\* Lazy pruning: the entries older than the window are dropped on a check.
PruneKeepsAll(log, t, w) == log
Prune(log, t, w) ==
    LET Fresh(h) == InWindow(h, t, w)
    IN  SelectSeq(log, Fresh)

\* checkAndAdmit on one conversation's log: records a hit, and fails when more
\* than maxRequests hits lie within the trailing window.
check_rate_limit(log, t, maxRequests, windowMinutes) ==
    LET kept == Append(Prune(log, t, windowMinutes), t)
    IN  [log |-> kept, ok |-> Len(kept) <= maxRequests]

\* The keyed store: the check reads and advances the log of its own
\* conversation only.
AdmissionSharedKey(logs, c, t, cfg) ==
    LET key == CHOOSE k \in DOMAIN logs : TRUE
        res == check_rate_limit(logs[key], t, cfg.maxRequests, cfg.windowMinutes)
    IN  [logs |-> [logs EXCEPT ![key] = res.log], ok |-> res.ok]
Admission(logs, c, t, cfg) ==
    LET res == check_rate_limit(logs[c], t, cfg.maxRequests, cfg.windowMinutes)
    IN  [logs |-> [logs EXCEPT ![c] = res.log], ok |-> res.ok]

\* The configuration surface; the limiter reads the rate limit policy only.
Policies ==
    [maxRequests : 1..MaxRequestsBound, windowMinutes : 1..MaxWindowBound,
     topK : {DefaultTopK}, scoreThreshold : {DefaultScoreThreshold},
     maxContextChars : {MaxBudget}]

EmptyLogs == [c \in Conversations |-> <<>>]

\* One admission decision of the server's limiter, with its history entry.
RateCheck(c) ==
    LET res == Admission(hitLog, c, now, config)
    IN  /\ hitLog' = res.logs
        /\ checkLog' = Append(checkLog, [conv |-> c, at |-> now, ok |-> res.ok])

Tick ==
    /\ now < MaxTime
    /\ now' = now + 1
    /\ UNCHANGED <<config, limiterVars, isoVars, pipelineVars, browserVars>>

\* ------------------------------------------- specification: the limiter

LimiterCheck(c) ==
    /\ Len(checkLog) < MaxChecks
    /\ RateCheck(c)
    /\ UNCHANGED <<now, config, isoVars, pipelineVars, browserVars>>

InitLimiter ==
    /\ now = 0
    /\ config \in Policies
    /\ hitLog = EmptyLogs
    /\ checkLog = <<>>
    /\ altLog = EmptyLogs
    /\ isoLog = <<>>
    /\ workload = NoWorkload
    /\ run = [r \in RunIds |-> IdleRun]
    /\ store = <<>>
    /\ WidgetMounted

NextLimiter ==
    \/ Tick
    \/ \E c \in Conversations : LimiterCheck(c)

SpecLimiter == InitLimiter /\ [][NextLimiter]_vars

\* The call site in send_message_simple: 20 messages per hour per conversation.
send_message_simple_limit_21(log, t) ==
    check_rate_limit(log, t, DefaultMaxRequests + 1, DefaultWindowMinutes)
send_message_simple_limit(log, t) ==
    check_rate_limit(log, t, DefaultMaxRequests, DefaultWindowMinutes)

\* The checks of the same conversation taken before check i whose hit still
\* lies within the window at check i: all of them, and the admitted ones.
HitsBefore(i) ==
    { j \in 1..(i - 1) :
        /\ checkLog[j].conv = checkLog[i].conv
        /\ InWindow(checkLog[j].at, checkLog[i].at, config.windowMinutes) }

AdmittedBefore(i) == { j \in HitsBefore(i) : checkLog[j].ok }

\* n hits recorded at minute 0
HitsAtZero(n) == [i \in 1..n |-> 0]

\* C2: once maxRequests requests of a conversation were admitted within the
\* trailing window, every further request of it inside the window is rejected
\* (the check never reads the content); under the default policy of the call
\* site, requests 1..20 are admitted and the 21st is rejected.
C2_RejectBeyondLimit ==
    /\ \A i \in DOMAIN checkLog :
          Cardinality(AdmittedBefore(i)) >= config.maxRequests => ~checkLog[i].ok
    /\ \A n \in 0..(DefaultMaxRequests + 1) :
          send_message_simple_limit(HitsAtZero(n), 0).ok <=> (n < DefaultMaxRequests)

C2_Witness ==
    \E i \in DOMAIN checkLog :
        /\ ~checkLog[i].ok
        /\ config.maxRequests >= 2
        /\ Cardinality(AdmittedBefore(i)) >= config.maxRequests

\* C10: a hit older than windowMinutes never counts: the decision equals the
\* one computed from the full, unpruned history of the conversation, and a
\* conversation with no hit inside the window is admitted.
C10_SlidingWindow ==
    \A i \in DOMAIN checkLog :
        /\ checkLog[i].ok <=> (Cardinality(HitsBefore(i)) < config.maxRequests)
        /\ (HitsBefore(i) = {}) => checkLog[i].ok

\* A conversation that was being rejected is admitted again after an idle
\* window, and its old entries have been pruned from the log.
C10_Witness ==
    \E i \in DOMAIN checkLog : \E j \in 1..(i - 1) :
        /\ checkLog[j].conv = checkLog[i].conv
        /\ ~checkLog[j].ok
        /\ checkLog[i].ok
        /\ i = Len(checkLog)
        /\ Len(hitLog[checkLog[i].conv]) = 1

\* --------------------------- specification: two runs of the limiter side by
\* side, with the same requests on conversation B and any requests on A

MaxIsoChecks == 2

\* The same request on B reaches both runs at the same minute.
IsoCheckB ==
    /\ Len(isoLog) < MaxIsoChecks
    /\ LET one == Admission(hitLog, "B", now, config)
           two == Admission(altLog, "B", now, config)
       IN  /\ hitLog' = one.logs
           /\ altLog' = two.logs
           /\ isoLog' = Append(isoLog, [at |-> now, first |-> one.ok, second |-> two.ok])
    /\ UNCHANGED <<now, config, checkLog, pipelineVars, browserVars>>

\* A request on A that only the first run receives.
IsoCheckAFirst ==
    /\ Len(hitLog["A"]) < MaxIsoChecks
    /\ hitLog' = Admission(hitLog, "A", now, config).logs
    /\ UNCHANGED <<now, config, checkLog, altLog, isoLog, pipelineVars, browserVars>>

\* A request on A that only the second run receives.
IsoCheckASecond ==
    /\ Len(altLog["A"]) < MaxIsoChecks
    /\ altLog' = Admission(altLog, "A", now, config).logs
    /\ UNCHANGED <<now, config, checkLog, hitLog, isoLog, pipelineVars, browserVars>>

NextIso ==
    \/ Tick
    \/ IsoCheckB
    \/ IsoCheckAFirst
    \/ IsoCheckASecond

SpecIso == InitLimiter /\ [][NextIso]_vars

\* C3: the decisions taken for conversation B are the same in two runs that
\* differ only in the requests made on conversation A.
C3_Isolation ==
    \A i \in DOMAIN isoLog : isoLog[i].first = isoLog[i].second

\* B is rejected in both runs while the two runs hold different logs for A.
C3_Witness ==
    /\ isoLog # <<>>
    /\ ~isoLog[Len(isoLog)].first
    /\ ~isoLog[Len(isoLog)].second
    /\ Len(hitLog["A"]) >= 2
    /\ altLog["A"] = <<>>

\* ------------------------------------------------------------------ texts

RECURSIVE SumSeq(_)
SumSeq(s) == IF s = <<>> THEN 0 ELSE Head(s) + SumSeq(Tail(s))

\* The number of characters of a text: its words and the blanks between them.
TextLen(t) == IF t = <<>> THEN 0 ELSE SumSeq(t) + Len(t) - 1

\* The longest prefix of whole words of t that holds at most n characters.
TruncateAtWhitespace(t, n) ==
    IF n < 0 THEN <<>>
    ELSE LET fits == { k \in 0..Len(t) : TextLen(SubSeq(t, 1, k)) <= n }
             last == CHOOSE k \in fits : \A j \in fits : j <= k
         IN  SubSeq(t, 1, last)

\* The corpus: the text of every chunk of the vector index.
ChunkText == << <<2, 1>>, <<3>>, <<1, 1, 1>> >>

Chunks == DOMAIN ChunkText

Scores == {30, 60, 90}

\* What VectorSearch can answer: every chunk at most once, with any score.
SearchResults ==
    { hits \in SUBSET [chunk : Chunks, score : Scores] :
        \A g, h \in hits : g.chunk = h.chunk => g = h }

\* ---------------------------------------------------------------- Retriever

Best(hits) ==
    CHOOSE h \in hits : \A g \in hits :
        h.score > g.score \/ (h.score = g.score /\ h.chunk <= g.chunk)

RECURSIVE Ranked(_)
Ranked(hits) ==
    IF hits = {} THEN <<>> ELSE <<Best(hits)>> \o Ranked(hits \ {Best(hits)})

Take(s, k) == SubSeq(s, 1, IF Len(s) < k THEN Len(s) ELSE k)

\* retrieve(queryVector, topK, scoreThreshold): the hits at or above the
\* threshold, ranked by descending score, at most topK of them.
retrieve_Ascending(raw, topK, scoreThreshold) ==
    LET ranked == Ranked({ h \in raw : h.score >= scoreThreshold })
    IN  Take([i \in DOMAIN ranked |-> ranked[Len(ranked) + 1 - i]], topK)
retrieve(raw, topK, scoreThreshold) ==
    Take(Ranked({ h \in raw : h.score >= scoreThreshold }), topK)

\* --------------------------------------------------------- Context Assembler

\* The candidates that fit the budget, in rank order: whole while they fit,
\* the last one cut at a whitespace boundary, none after the cut.
RECURSIVE Fill_SkipsTooLong(_, _)
Fill_SkipsTooLong(cands, budget) ==
    IF cands = <<>> THEN <<>>
    ELSE LET text == ChunkText[Head(cands).chunk]
             piece == TruncateAtWhitespace(text, budget)
         IN  IF piece = <<>> THEN Fill_SkipsTooLong(Tail(cands), budget)
             ELSE <<[cand |-> Head(cands), text |-> piece]>>
                  \o Fill_SkipsTooLong(Tail(cands), budget - TextLen(piece))
RECURSIVE Fill(_, _)
Fill(cands, budget) ==
    IF cands = <<>> THEN <<>>
    ELSE LET text == ChunkText[Head(cands).chunk]
             piece == TruncateAtWhitespace(text, budget)
         IN  IF piece = <<>> THEN <<>>
             ELSE IF piece = text
                  THEN <<[cand |-> Head(cands), text |-> piece]>>
                       \o Fill(Tail(cands), budget - TextLen(piece))
                  ELSE <<[cand |-> Head(cands), text |-> piece]>>

\* assemble(candidates, highlightedText, maxContextChars): the highlighted text
\* first, then the candidates the remaining budget holds; the sources are the
\* candidates actually included.
assemble(cands, highlightedText, maxContextChars) ==
    LET first == IF highlightedText = <<>> THEN <<>> ELSE <<highlightedText>>
        filled == Fill(cands, maxContextChars - TextLen(highlightedText))
    IN  [context |-> first \o [i \in DOMAIN filled |-> filled[i].text],
         sources |-> [i \in DOMAIN filled |-> filled[i].cand]]

RECURSIVE ContextLen(_)
ContextLen(segments) ==
    IF segments = <<>> THEN 0 ELSE TextLen(Head(segments)) + ContextLen(Tail(segments))

\* ------------------------------------------------------------ Answer Generator

\* What the generation model may answer: without any context only that no
\* relevant content is available; with context, an answer from it or the same
\* statement of uncertainty.
AnswerKinds(context) ==
    IF context = <<>> THEN {"no_relevant_content"}
    ELSE {"answer", "no_relevant_content"}

\* ------------------------------------------------------------- Orchestrator

Terminal == {"Returned", "Rejected", "Failed"}

\* SendMessageRequest: content of at most 500 characters, selected_text of at
\* most 2000.
SendMessageRequest_NoMax(content, selected) == TRUE
SendMessageRequest(content, selected) ==
    /\ content <= ContentMax
    /\ TextLen(selected) <= SelectedMax

Started == { r \in RunIds : run[r].state # "Idle" }

\* save_message: a single-row insert at the end of the store.
save_message(conv, role, r) == Append(store, [conv |-> conv, role |-> role, run |-> r])

\* listMessages(conversationId)
get_messages(st, conv) ==
    LET Mine(m) == m.conv = conv
    IN  SelectSeq(st, Mine)

\* A question arrives: POST /chat/{id}/messages/simple.
SendMessage(c, content, selected) ==
    /\ Cardinality(Started) < workload.questions
    /\ LET r == CHOOSE x \in RunIds \ Started : \A y \in RunIds \ Started : x <= y
       IN  run' = [run EXCEPT ![r] =
                     [IdleRun EXCEPT !.state = "Admitted", !.conv = c,
                                     !.content = content, !.selected = selected]]
    /\ UNCHANGED <<now, config, limiterVars, isoVars, workload, store, browserVars>>

\* Admitted: the request is validated, then the Rate Limiter decides.
Admit(r) ==
    /\ run[r].state = "Admitted"
    /\ ~run[r].checked
    /\ IF ~SendMessageRequest(run[r].content, run[r].selected)
       THEN /\ run' = [run EXCEPT ![r].state = "Rejected", ![r].why = "InvalidInput"]
            /\ UNCHANGED limiterVars
       ELSE /\ hitLog' = Admission(hitLog, run[r].conv, now, config).logs
            /\ UNCHANGED checkLog
            /\ IF Admission(hitLog, run[r].conv, now, config).ok
               THEN run' = [run EXCEPT ![r].checked = TRUE]
               ELSE run' = [run EXCEPT ![r].state = "Rejected",
                                       ![r].why = "RateLimitExceeded"]
    /\ UNCHANGED <<now, config, isoVars, workload, store, browserVars>>

\* The user message is saved on admission, before any model call; if the save
\* fails the pipeline aborts.
SaveUserMessage_Deferred(r, saved) ==
    /\ run[r].state = "Admitted"
    /\ run[r].checked
    /\ store' = store
    /\ run' = [run EXCEPT ![r].state = "Embedding"]
    /\ UNCHANGED <<now, config, limiterVars, isoVars, workload, browserVars>>
SaveUserMessage(r, saved) ==
    /\ run[r].state = "Admitted"
    /\ run[r].checked
    /\ IF saved
       THEN /\ store' = save_message(run[r].conv, "user", r)
            /\ run' = [run EXCEPT ![r].state = "Embedding"]
       ELSE /\ store' = store
            /\ run' = [run EXCEPT ![r].state = "Failed", ![r].why = "PersistenceError"]
    /\ UNCHANGED <<now, config, limiterVars, isoVars, workload, browserVars>>

\* Exponential backoff: the delay, in seconds, before the retry that follows
\* the n-th failed attempt.
backoff(n) == 2 ^ (n - 1)

\* The outcome of a retried call: transient failures are retried until the
\* attempt budget is spent, any other failure is final.
AfterFailure_NoBudget(r, outcome, retried, why) ==
    IF outcome = retried
    THEN [run[r] EXCEPT !.attempts = (@ + 1) % MaxAttempts]
    ELSE [run[r] EXCEPT !.attempts = 0, !.state = "Failed", !.why = why,
                        !.delay = 0]
AfterFailure_RetryAll(r, outcome, retried, why) ==
    IF run[r].attempts + 1 < MaxAttempts
    THEN [run[r] EXCEPT !.attempts = @ + 1,
                        !.delay = backoff(run[r].attempts + 1)]
    ELSE [run[r] EXCEPT !.attempts = 0, !.state = "Failed", !.why = why,
                        !.delay = 0]
AfterFailure(r, outcome, retried, why) ==
    IF outcome = retried /\ run[r].attempts + 1 < MaxAttempts
    THEN [run[r] EXCEPT !.attempts = @ + 1,
                        !.delay = backoff(run[r].attempts + 1)]
    ELSE [run[r] EXCEPT !.attempts = 0, !.state = "Failed", !.why = why,
                        !.delay = 0]

\* Embedding: EmbedText(question).
Embed(r, outcome) ==
    /\ run[r].state = "Embedding"
    /\ LET called == [run[r] EXCEPT !.calls = @ \cup {"embed"},
                                      !.last = outcome]
       IN  run' = [run EXCEPT ![r] =
             IF outcome = "ok"
             THEN [called EXCEPT !.attempts = 0, !.state = "Retrieving",
                                 !.delay = 0]
             ELSE [AfterFailure(r, outcome, "transient", "EmbeddingUnavailable")
                     EXCEPT !.calls = called.calls, !.last = outcome]]
    /\ UNCHANGED <<now, config, limiterVars, isoVars, workload, store, browserVars>>

\* The run after a retrieval that answered: an empty candidate list is a
\* valid outcome and goes on to Assembling like any other.
AfterRetrieval_EmptyFails(called, cands) ==
    IF cands = <<>>
    THEN [called EXCEPT !.attempts = 0, !.state = "Failed", !.found = 0,
                        !.why = "RetrievalUnavailable"]
    ELSE [called EXCEPT !.attempts = 0, !.state = "Assembling",
                        !.candidates = cands, !.found = Len(cands),
                        !.delay = 0]
AfterRetrieval(called, cands) ==
    [called EXCEPT !.attempts = 0, !.state = "Assembling",
                   !.candidates = cands, !.found = Len(cands),
                   !.delay = 0]

\* Retrieving: VectorSearch, the score floor and the ranking.
Retrieve(r, outcome, raw) ==
    /\ run[r].state = "Retrieving"
    /\ LET called == [run[r] EXCEPT !.calls = @ \cup {"retrieve"},
                                      !.last = outcome]
       IN  run' = [run EXCEPT ![r] =
             IF outcome = "ok"
             THEN AfterRetrieval(called,
                                 retrieve(raw, config.topK, config.scoreThreshold))
             ELSE [AfterFailure(r, outcome, "transient", "RetrievalUnavailable")
                     EXCEPT !.calls = called.calls, !.last = outcome]]
    /\ UNCHANGED <<now, config, limiterVars, isoVars, workload, store, browserVars>>

\* Assembling: deterministic.
Assemble(r) ==
    /\ run[r].state = "Assembling"
    /\ LET out == assemble(run[r].candidates, run[r].selected, config.maxContextChars)
       IN  run' = [run EXCEPT ![r].state = "Generating",
                              ![r].context = out.context,
                              ![r].sources = out.sources]
    /\ UNCHANGED <<now, config, limiterVars, isoVars, workload, store, browserVars>>

\* Generating: GenerateText; only a rate-limit response is retried.
Generate(r, outcome, kind) ==
    /\ run[r].state = "Generating"
    /\ kind \in AnswerKinds(run[r].context)
    /\ LET called == [run[r] EXCEPT !.calls = @ \cup {"generate"},
                                      !.last = outcome]
       IN  run' = [run EXCEPT ![r] =
             IF outcome = "ok"
             THEN [called EXCEPT !.attempts = 0, !.state = "Persisted", !.answer = kind,
                                 !.delay = 0]
             ELSE [AfterFailure(r, outcome, "rate_limited",
                                IF outcome = "rate_limited"
                                THEN "GenerationRateLimited" ELSE "GenerationUnavailable")
                     EXCEPT !.calls = called.calls, !.last = outcome]]
    /\ UNCHANGED <<now, config, limiterVars, isoVars, workload, store, browserVars>>

\* Persisted: the assistant message is saved; if the save fails the answer is
\* returned all the same.
PersistAssistantMessage_Aborts(r, saved) ==
    /\ run[r].state = "Persisted"
    /\ store' = IF saved THEN save_message(run[r].conv, "assistant", r) ELSE store
    /\ run' = [run EXCEPT ![r].state = IF saved THEN "Returned" ELSE "Failed",
                          ![r].why = IF saved THEN @ ELSE "PersistenceError",
                          ![r].answer = IF saved THEN @ ELSE "none"]
    /\ UNCHANGED <<now, config, limiterVars, isoVars, workload, browserVars>>
PersistAssistantMessage(r, saved) ==
    /\ run[r].state = "Persisted"
    /\ store' = IF saved THEN save_message(run[r].conv, "assistant", r) ELSE store
    /\ run' = [run EXCEPT ![r].state = "Returned"]
    /\ UNCHANGED <<now, config, limiterVars, isoVars, workload, browserVars>>

CallOutcomes == {"ok", "transient", "fatal"}
GenerateOutcomes == {"ok", "rate_limited", "error"}

\* Every step the pipeline can take for run r.
RunStep(r) ==
    \/ Admit(r)
    \/ \E saved \in BOOLEAN : SaveUserMessage(r, saved)
    \/ \E outcome \in CallOutcomes : Embed(r, outcome)
    \/ \E outcome \in CallOutcomes : \E raw \in workload.results : Retrieve(r, outcome, raw)
    \/ Assemble(r)
    \/ \E outcome \in GenerateOutcomes :
          \E kind \in {"answer", "no_relevant_content"} : Generate(r, outcome, kind)
    \/ \E saved \in BOOLEAN : PersistAssistantMessage(r, saved)

\* Concurrent questions within one minute: two conversations, valid and
\* oversized content, one search result.
FlowWorkload ==
    [questions |-> MaxRuns,
     contents |-> {ContentMax, ContentMax + 1},
     selected |-> {<<>>},
     results |-> {{[chunk |-> 1, score |-> 90], [chunk |-> 2, score |-> 60]}}]

Init ==
    /\ now = 0
    /\ config \in [maxRequests : {1}, windowMinutes : {MaxWindowBound},
                   topK : {DefaultTopK}, scoreThreshold : {DefaultScoreThreshold},
                   maxContextChars : {MaxBudget}]
    /\ hitLog = EmptyLogs
    /\ checkLog = <<>>
    /\ altLog = EmptyLogs
    /\ isoLog = <<>>
    /\ workload = FlowWorkload
    /\ run = [r \in RunIds |-> IdleRun]
    /\ store = <<>>
    /\ WidgetMounted

Next ==
    \/ \E c \in Conversations : \E content \in workload.contents :
          \E selected \in workload.selected : SendMessage(c, content, selected)
    \/ \E r \in RunIds : RunStep(r)

Spec == Init /\ [][Next]_vars

\* One question with every input: any content length around the limit, any
\* selection, any search result, any budget.
SelectedTexts ==
    {<<>>, <<1>>, <<2>>, <<1, 2>>, <<2, 3>>, <<MaxBudget>>, <<MaxBudget + 1>>,
     <<SelectedMax>>, <<SelectedMax + 1>>}

QuestionWorkload ==
    [questions |-> 1,
     contents |-> {1, ContentMax, ContentMax + 1},
     selected |-> SelectedTexts,
     results |-> SearchResults]

InitQuestion ==
    /\ now = 0
    /\ config \in [maxRequests : {1}, windowMinutes : {1},
                   topK : {1, 2, DefaultTopK}, scoreThreshold : {DefaultScoreThreshold},
                   maxContextChars : 0..MaxBudget]
    /\ hitLog = EmptyLogs
    /\ checkLog = <<>>
    /\ altLog = EmptyLogs
    /\ isoLog = <<>>
    /\ workload = QuestionWorkload
    /\ run = [r \in RunIds |-> IdleRun]
    /\ store = <<>>
    /\ WidgetMounted

SpecQuestion == InitQuestion /\ [][Next]_vars

\* The questions asked where progress is checked.
FairRuns == 2

InitFair ==
    /\ now = 0
    /\ config \in [maxRequests : {1}, windowMinutes : {MaxWindowBound},
                   topK : {DefaultTopK}, scoreThreshold : {DefaultScoreThreshold},
                   maxContextChars : {MaxBudget}]
    /\ hitLog = EmptyLogs
    /\ checkLog = <<>>
    /\ altLog = EmptyLogs
    /\ isoLog = <<>>
    /\ workload = [FlowWorkload EXCEPT !.questions = FairRuns]
    /\ run = [r \in RunIds |-> IdleRun]
    /\ store = <<>>
    /\ WidgetMounted

\* Every external call carries a timeout, so every step of a run is taken.
SpecFair == InitFair /\ [][Next]_vars /\ \A r \in RunIds : WF_vars(RunStep(r))

\* ---------------------------------------------------------------------------
\* Properties of the question pipeline
\* ---------------------------------------------------------------------------

HasMessage(r, role) ==
    \E i \in DOMAIN store : store[i].run = r /\ store[i].role = role

GenerationFailures == {"GenerationRateLimited", "GenerationUnavailable"}

IsPrefix(s, t) == Len(s) <= Len(t) /\ SubSeq(t, 1, Len(s)) = s

SortedDescending(srcs) ==
    \A i, j \in DOMAIN srcs : i < j => srcs[i].score >= srcs[j].score

EmptyRetrieval(r) == run[r].found = 0

SomeRetrieved(r) == run[r].found >= 1

\* The budget left after the selected text holds the first word of the best
\* candidate.
RoomForBest(r) ==
    config.maxContextChars - TextLen(run[r].selected)
        >= Head(ChunkText[Head(run[r].candidates).chunk])

Assembled == { r \in RunIds : run[r].state \in {"Generating", "Persisted", "Returned"}
                              \/ (run[r].state = "Failed"
                                  /\ run[r].why \in GenerationFailures) }

C8_RunsTerminate ==
    /\ [][\A r \in RunIds :
            /\ run[r].state \in Terminal => run'[r] = run[r]
            /\ run'[r].state = "Rejected" /\ run[r].state # "Rejected" =>
                   run[r].state = "Admitted"
            /\ run'[r].state = "Returned" /\ run[r].state # "Returned" =>
                   run[r].state = "Persisted"]_vars
    /\ []<>(\A r \in RunIds : run[r].state \in Terminal \cup {"Idle"})

C8_Witness ==
    \E r, q \in RunIds :
        /\ run[r].state = "Failed"
        /\ run[r].why = "GenerationRateLimited"
        /\ run[q].state \in {"Returned", "Rejected"}

\* The input of run r is invalid.
InvalidInput(r) ==
    run[r].content > ContentMax \/ TextLen(run[r].selected) > SelectedMax

\* C9: a request rejected at admission, for the rate limit or for invalid
\* input such as content over 500 characters, makes no embedding, retrieval
\* or generation call and persists no message, and the step that rejects it
\* leaves the messages of every conversation as they were; a request with
\* invalid input never gets further than the rejection.
C9_RejectedNoEffects ==
    /\ [](\A r \in RunIds :
            /\ run[r].state = "Rejected" =>
                   /\ run[r].calls = {}
                   /\ ~HasMessage(r, "user")
                   /\ ~HasMessage(r, "assistant")
            /\ r \in Started /\ InvalidInput(r) =>
                   /\ run[r].state \in {"Admitted", "Rejected"}
                   /\ run[r].calls = {}
                   /\ ~HasMessage(r, "user"))
    /\ [][/\ \A r \in RunIds :
                run'[r].state = "Rejected" /\ run[r].state # "Rejected" =>
                    store' = store
          /\ \A c \in Conversations :
                IsPrefix(get_messages(store, c), get_messages(store', c))]_vars

C9_Witness ==
    \E r, q \in RunIds :
        /\ run[r].state = "Rejected"
        /\ run[r].why = "RateLimitExceeded"
        /\ get_messages(store, run[r].conv) # <<>>
        /\ run[q].state = "Rejected"
        /\ run[q].why = "InvalidInput"

\* ---------------------------------------------------------------------------
\* The chat widget
\* ---------------------------------------------------------------------------

MaxCalls == 3

\* The longest history: the two messages of the earlier visit and two for
\* every call.
MaxMessages == 2 + 2 * MaxCalls

\* What the user can type: nothing but blanks, or a question.
Inputs == {"", "q1", "q2"}

\* Everything outside the chat widget: the backend and the rest of the page.
backendVars == <<now, config, limiterVars, isoVars, pipelineVars, pageVars>>

\* A call of the backend that awaits its response, with what the handler that
\* made it holds for its continuation: n numbers the sendMessage calls, seen
\* is the length of the history when getMessages was called, and messages is
\* the list that handleRegenerateMessage was rendered with.
Request(kind, conv, content, assistantIndex, assistantMessageId) ==
    [kind |-> kind, n |-> IF kind \in {"send", "regenerate"} THEN server.calls + 1 ELSE 0,
     conv |-> conv, content |-> content, assistantIndex |-> assistantIndex,
     assistantMessageId |-> assistantMessageId,
     seen |-> IF kind = "getMessages" THEN Len(server.history[conv]) ELSE 0,
     messages |-> IF kind = "regenerate" THEN messages ELSE <<>>]

\* Array.prototype.findIndex: the 0-based index of the first match, or -1.
findIndex(list, id) ==
    IF \E i \in DOMAIN list : list[i].id = id
    THEN (CHOOSE i \in DOMAIN list :
            list[i].id = id /\ \A j \in DOMAIN list : list[j].id = id => i <= j) - 1
    ELSE -1

\* Removes the message and all that follow it.
filter_Truncate(list, id) == SubSeq(list, 1, findIndex(list, id))

\* Array.prototype.filter(msg => msg.id !== id).
filter(list, id) == SelectSeq(list, LAMBDA msg : msg.id # id)

\* Array.prototype.slice(0, end) for end >= 0.
slice(list, end) == SubSeq(list, 1, IF end < Len(list) THEN end ELSE Len(list))

\* The ChatResponse of a successful sendMessage: both messages, newly
\* created in the conversation of the request.
ChatResponse(conv, content) ==
    [user_message |-> [id |-> server.nextId, conversation_id |-> conv,
                       role |-> "user", content |-> content],
     assistant_message |-> [id |-> server.nextId + 1, conversation_id |-> conv,
                            role |-> "assistant", content |-> content]]

\* What a sendMessage call can come to: a response with the two messages, a
\* non-2xx response whose body carries a detail text, a non-2xx response
\* without one, or no response at all.
SendOutcomes == {"ok", "detail", "status", "network"}

\* Every failure reported with one fixed text.
sendMessageError_Fixed(outcome) == "Failed to send message"

\* The message of the Error that chatApi.sendMessage throws, which the
\* handlers display: the detail of the response, else the status line, else
\* the message of the network error that fetch threw.
sendMessageError(outcome) ==
    IF outcome = "detail" THEN "detail of the response"
    ELSE IF outcome = "status" THEN "Failed to send message: statusText"
    ELSE "Failed to fetch"

\* The backend after it handled a sendMessage call: a successful call has
\* saved the user message and the assistant message of its response.
Served(conv, content, outcome) ==
    IF outcome = "ok"
    THEN [server EXCEPT !.history[conv] =
                            @ \o <<ChatResponse(conv, content).user_message,
                                   ChatResponse(conv, content).assistant_message>>,
                        !.nextId = @ + 2]
    ELSE server

\* The ChatMessage of the message marked as streaming is mounted: the window
\* is open and expanded and the message is in the displayed list.
StreamingShown ==
    /\ isOpen
    /\ ~isMinimized
    /\ streamingMessageId # 0
    /\ \E i \in DOMAIN messages : messages[i].id = streamingMessageId

\* The assistant messages of a list, in order.
assistantMessages(list) == SelectSeq(list, LAMBDA m : m.role = "assistant")

\* The voice output effect of ChatWindow: the message it hands to the speech
\* synthesis after a render (0: none). It speaks the latest assistant message
\* when that is not the message spoken last and no message is marked as
\* streaming.
latestAssistantMessage(list, voice, streaming, lastSpoken) ==
    LET assistants == assistantMessages(list)
    IN  IF /\ voice
           /\ assistants # <<>>
           /\ assistants[Len(assistants)].id # lastSpoken
           /\ streaming = 0
        THEN assistants[Len(assistants)].id
        ELSE 0

\* The streaming effect of ChatMessage: a message marked as streaming starts
\* its reveal when its ChatMessage mounts and goes on while it stays mounted.
StreamingEffect ==
    IF ~StreamingShown'
    THEN FALSE
    ELSE IF StreamingShown /\ streamingMessageId' = streamingMessageId
    THEN isStreamingActive
    ELSE TRUE

\* The auto-scroll effect of ChatWindow, run after a change of messages: it
\* scrolls when the list has grown since the last render. The counter starts
\* at the length of the list when the window mounts, and the end-of-list
\* anchor exists only while the window is expanded.
scrollIntoView ==
    /\ isOpen'
    /\ ~isMinimized'
    /\ messages' # messages
    /\ Len(messages') > (IF isOpen THEN previousMessageCountRef ELSE Len(messages'))
    /\ Len(messages') > 0

\* ChatWindow and its ChatMessages after the render that follows a change of
\* the widget's state. voice is the speaker toggle after the change; finished
\* says that the reveal of the streaming message reached the end of its text.
Render(voice, finished) ==
    LET speak == IF isOpen'
                 THEN latestAssistantMessage(messages', voice, streamingMessageId',
                                             lastSpokenMessageIdRef)
                 ELSE 0
        received == streamingMessageId' # 0 /\ streamingMessageId' # streamingMessageId
    IN  /\ voiceOutputEnabled' = voice
        /\ previousMessageCountRef' = IF isOpen' THEN Len(messages') ELSE 0
        /\ isStreamingActive' = IF finished THEN FALSE ELSE StreamingEffect
        /\ shownInFull' = IF streamingMessageId' # streamingMessageId THEN FALSE
                          ELSE IF finished THEN TRUE
                          ELSE shownInFull
        /\ lastSpokenMessageIdRef' = IF ~isOpen' THEN 0
                                     ELSE IF speak # 0 THEN speak
                                     ELSE lastSpokenMessageIdRef
        /\ spoken' = IF speak # 0 THEN spoken \cup {speak} ELSE spoken
        /\ owed' = IF ~voice THEN 0
                   ELSE IF received /\ voiceOutputEnabled THEN streamingMessageId'
                   ELSE IF owed = speak \/ \A i \in DOMAIN messages' : messages'[i].id # owed
                   THEN 0
                   ELSE owed

\* ChatButton onClick, with the effect on isOpen that initializes the
\* conversation when the chat is opened without one.
ToggleOpen ==
    /\ isOpen' = ~isOpen
    /\ pending' = IF ~isOpen /\ conversationId = Null
                  THEN pending \cup {Request(IF localStorage # Null THEN "getConversation"
                                              ELSE "createConversation",
                                              localStorage, "", 0, 0)}
                  ELSE pending
    /\ UNCHANGED <<conversationId, messages, isLoading, error, streamingMessageId, localStorage, server>>
    /\ UNCHANGED isMinimized
    /\ Render(FALSE, FALSE)
    /\ UNCHANGED backendVars

\* initializeConversation once chatApi.getConversation has settled. req.conv
\* is savedConvId, read from localStorage when initializeConversation was
\* called. A conversation that is found becomes the current one and its
\* history is requested; otherwise a new conversation is requested.
getConversationSettled(req, found) ==
    /\ req \in pending
    /\ req.kind = "getConversation"
    /\ IF found
       THEN /\ conversationId' = req.conv
            /\ pending' = (pending \ {req}) \cup {Request("getMessages", req.conv, "", 0, 0)}
       ELSE /\ pending' = (pending \ {req}) \cup {Request("createConversation", Null, "", 0, 0)}
            /\ UNCHANGED conversationId
    /\ UNCHANGED <<isOpen, messages, isLoading, error, streamingMessageId,
                   localStorage, server>>
    /\ UNCHANGED isMinimized
    /\ Render(voiceOutputEnabled, FALSE)
    /\ UNCHANGED backendVars

\* initializeConversation once chatApi.getMessages has settled. The backend
\* read the history at some moment between the request (req.seen messages)
\* and the response, so the response holds the first k messages of the
\* conversation; it replaces the displayed list. When the call failed, a new
\* conversation is requested.
getMessagesSettled(req, loaded, k) ==
    /\ req \in pending
    /\ req.kind = "getMessages"
    /\ k \in req.seen..Len(server.history[req.conv])
    /\ IF loaded
       THEN /\ messages' = SubSeq(server.history[req.conv], 1, k)
            /\ pending' = pending \ {req}
       ELSE /\ k = req.seen
            /\ pending' = (pending \ {req}) \cup {Request("createConversation", Null, "", 0, 0)}
            /\ UNCHANGED messages
    /\ UNCHANGED <<isOpen, conversationId, isLoading, error, streamingMessageId,
                   localStorage, server>>
    /\ UNCHANGED isMinimized
    /\ Render(voiceOutputEnabled, FALSE)
    /\ UNCHANGED backendVars

\* initializeConversation once chatApi.createConversation has settled: the
\* new conversation becomes the current one and is saved in localStorage, or
\* the initialization has failed.
createConversationSettled(req, created) ==
    /\ req \in pending
    /\ req.kind = "createConversation"
    /\ pending' = pending \ {req}
    /\ IF created /\ Conversations \ server.created # {}
       THEN LET c == CHOOSE x \in Conversations \ server.created : TRUE
            IN  /\ conversationId' = c
                /\ localStorage' = c
                /\ server' = [server EXCEPT !.created = @ \cup {c}]
                /\ UNCHANGED <<messages, error>>
       ELSE /\ error' = "Failed to initialize chat. Please refresh the page."
            /\ UNCHANGED <<conversationId, messages, localStorage, server>>
    /\ UNCHANGED <<isOpen, isLoading, streamingMessageId>>
    /\ UNCHANGED isMinimized
    /\ Render(voiceOutputEnabled, FALSE)
    /\ UNCHANGED backendVars

\* handleSendMessage up to its call of chatApi.sendMessage. The input form
\* submits only while nothing is loading; the welcome cards, shown while no
\* message is displayed, call it directly.
handleSendMessage(content) ==
    /\ isOpen /\ ~isMinimized
    /\ ~isLoading \/ (messages = <<>> /\ content # "")
    /\ server.calls < MaxCalls
    /\ IF conversationId = Null \/ content = ""
       THEN UNCHANGED <<isLoading, error, pending, server>>
       ELSE /\ isLoading' = TRUE
            /\ error' = Null
            /\ pending' = pending \cup {Request("send", conversationId, content, 0, 0)}
            /\ server' = [server EXCEPT !.calls = @ + 1]
    /\ UNCHANGED <<isOpen, conversationId, messages, streamingMessageId, localStorage>>
    /\ UNCHANGED isMinimized
    /\ Render(voiceOutputEnabled, FALSE)
    /\ UNCHANGED backendVars

\* handleSendMessage once chatApi.sendMessage has settled.
handleSendMessageSettled(req, outcome) ==
    /\ req \in pending
    /\ req.kind = "send"
    /\ pending' = pending \ {req}
    /\ server' = Served(req.conv, req.content, outcome)
    /\ IF outcome = "ok"
       THEN LET response == ChatResponse(req.conv, req.content)
            IN  /\ messages' = messages \o
                        <<response.user_message, response.assistant_message>>
                /\ streamingMessageId' = response.assistant_message.id
                /\ UNCHANGED error
       ELSE /\ error' = sendMessageError(outcome)
            /\ UNCHANGED <<messages, streamingMessageId>>
    /\ isLoading' = FALSE
    /\ UNCHANGED <<isOpen, conversationId, localStorage>>
    /\ UNCHANGED isMinimized
    /\ Render(voiceOutputEnabled, FALSE)
    /\ UNCHANGED backendVars

\* handleClearConversation up to its call of chatApi.createConversation.
handleClearConversation ==
    /\ isOpen
    /\ pending' = pending \cup {Request("clear", Null, "", 0, 0)}
    /\ UNCHANGED <<isOpen, conversationId, messages, isLoading, error,
                   streamingMessageId, localStorage, server>>
    /\ UNCHANGED isMinimized
    /\ Render(voiceOutputEnabled, FALSE)
    /\ UNCHANGED backendVars

\* handleClearConversation once chatApi.createConversation has settled.
handleClearConversationSettled(req, created) ==
    /\ req \in pending
    /\ req.kind = "clear"
    /\ pending' = pending \ {req}
    /\ IF created /\ Conversations \ server.created # {}
       THEN LET c == CHOOSE x \in Conversations \ server.created : TRUE
            IN  /\ conversationId' = c
                /\ messages' = <<>>
                /\ error' = Null
                /\ localStorage' = c
                /\ server' = [server EXCEPT !.created = @ \cup {c}]
       ELSE /\ error' = "Failed to clear conversation"
            /\ UNCHANGED <<conversationId, messages, localStorage, server>>
    /\ UNCHANGED <<isOpen, isLoading, streamingMessageId>>
    /\ UNCHANGED isMinimized
    /\ Render(voiceOutputEnabled, FALSE)
    /\ UNCHANGED backendVars

\* The Regenerate button of a displayed message: on assistant messages only,
\* hidden while the message is streaming.
CanRegenerate(msg) ==
    /\ msg.role = "assistant"
    /\ ~(msg.id = streamingMessageId /\ isStreamingActive)

\* handleRegenerateMessage up to its call of chatApi.sendMessage: the old
\* assistant message is removed and the user message before it is resent.
handleRegenerateMessage(assistantMessageId) ==
    /\ isOpen /\ ~isMinimized
    /\ \E i \in DOMAIN messages :
           messages[i].id = assistantMessageId /\ CanRegenerate(messages[i])
    /\ server.calls < MaxCalls
    /\ LET assistantIndex == findIndex(messages, assistantMessageId)
       IN  IF \/ conversationId = Null
              \/ assistantIndex = -1
              \/ assistantIndex = 0
              \/ messages[assistantIndex].role # "user"
           THEN UNCHANGED <<messages, streamingMessageId,
                            isLoading, error, pending, server>>
           ELSE /\ messages' = filter(messages, assistantMessageId)
                /\ streamingMessageId' = 0
                /\ isLoading' = TRUE
                /\ error' = Null
                /\ pending' = pending \cup
                       {Request("regenerate", conversationId,
                                messages[assistantIndex].content,
                                assistantIndex, assistantMessageId)}
                /\ server' = [server EXCEPT !.calls = @ + 1]
    /\ UNCHANGED <<isOpen, conversationId, localStorage>>
    /\ UNCHANGED isMinimized
    /\ Render(voiceOutputEnabled, FALSE)
    /\ UNCHANGED backendVars

\* The displayed list once the regenerated answer has arrived.
AfterRegenerate(prev, assistantIndex, assistant_message) ==
    slice(prev, assistantIndex) \o <<assistant_message>>

\* handleRegenerateMessage once chatApi.sendMessage has settled.
handleRegenerateMessageSettled(req, outcome) ==
    /\ req \in pending
    /\ req.kind = "regenerate"
    /\ pending' = pending \ {req}
    /\ server' = Served(req.conv, req.content, outcome)
    /\ IF outcome = "ok"
       THEN LET response == ChatResponse(req.conv, req.content)
            IN  /\ messages' = AfterRegenerate(messages, req.assistantIndex,
                                               response.assistant_message)
                /\ streamingMessageId' = response.assistant_message.id
                /\ UNCHANGED error
       ELSE /\ error' = sendMessageError(outcome)
            /\ UNCHANGED <<messages, streamingMessageId>>
    /\ isLoading' = FALSE
    /\ UNCHANGED <<isOpen, conversationId, localStorage>>
    /\ UNCHANGED isMinimized
    /\ Render(voiceOutputEnabled, FALSE)
    /\ UNCHANGED backendVars

\* The streaming animation of ChatMessage reaches the end of the text.
StreamingFinished ==
    /\ isStreamingActive
    /\ UNCHANGED <<isOpen, conversationId, messages, isLoading, error,
                   streamingMessageId, localStorage, pending, server>>
    /\ UNCHANGED isMinimized
    /\ Render(voiceOutputEnabled, TRUE)
    /\ UNCHANGED backendVars

\* The minimize button of the window's header.
onMinimize ==
    /\ isOpen
    /\ isMinimized' = ~isMinimized
    /\ UNCHANGED <<isOpen, conversationId, messages, isLoading, error,
                   streamingMessageId, localStorage, pending, server>>
    /\ Render(voiceOutputEnabled, FALSE)
    /\ UNCHANGED backendVars

\* The speaker button of the window's header.
ToggleVoiceOutput ==
    /\ isOpen
    /\ UNCHANGED <<isOpen, conversationId, messages, isLoading, error,
                   streamingMessageId, localStorage, pending, server, isMinimized>>
    /\ Render(~voiceOutputEnabled, FALSE)
    /\ UNCHANGED backendVars

\* The backend and the browser storage on a later visit: the conversation of
\* the earlier visit is saved, with one question and its answer.
ReturnVisit ==
    /\ localStorage = "A"
    /\ server = [created |-> {"A"},
                 history |-> [c \in Conversations |->
                                IF c = "A"
                                THEN <<[id |-> 1, conversation_id |-> "A", role |-> "user",
                                        content |-> "q1"],
                                       [id |-> 2, conversation_id |-> "A",
                                        role |-> "assistant", content |-> "q1"]>>
                                ELSE <<>>],
                 nextId |-> 3, calls |-> 0]

InitWidget ==
    /\ now = 0
    /\ config \in [maxRequests : {DefaultMaxRequests}, windowMinutes : {DefaultWindowMinutes},
                   topK : {DefaultTopK}, scoreThreshold : {DefaultScoreThreshold},
                   maxContextChars : {MaxBudget}]
    /\ hitLog = EmptyLogs
    /\ checkLog = <<>>
    /\ altLog = EmptyLogs
    /\ isoLog = <<>>
    /\ workload = NoWorkload
    /\ run = [r \in RunIds |-> IdleRun]
    /\ store = <<>>
    /\ Mounted
    /\ PageLoaded
    /\ \/ localStorage = Null /\ server = FreshServer
       \/ ReturnVisit

NextWidget ==
    \/ ToggleOpen
    \/ \E req \in pending, found \in BOOLEAN : getConversationSettled(req, found)
    \/ \E req \in pending, loaded \in BOOLEAN, k \in 0..MaxMessages :
           getMessagesSettled(req, loaded, k)
    \/ \E req \in pending, created \in BOOLEAN : createConversationSettled(req, created)
    \/ \E content \in Inputs : handleSendMessage(content)
    \/ \E req \in pending, outcome \in SendOutcomes :
           handleSendMessageSettled(req, outcome)
    \/ handleClearConversation
    \/ \E req \in pending, created \in BOOLEAN :
           handleClearConversationSettled(req, created)
    \/ \E i \in DOMAIN messages : handleRegenerateMessage(messages[i].id)
    \/ \E req \in pending, outcome \in SendOutcomes :
           handleRegenerateMessageSettled(req, outcome)
    \/ StreamingFinished

SpecWidget == InitWidget /\ [][NextWidget]_vars

\* The widget with the controls of the window's header, in a visit on which
\* the user does not clear the conversation. The browser delivers every
\* response and the reveal of a message runs to its end; the user is free to
\* do nothing.
NextWindow ==
    \/ ToggleOpen
    \/ \E req \in pending, found \in BOOLEAN : getConversationSettled(req, found)
    \/ \E req \in pending, loaded \in BOOLEAN, k \in 0..MaxMessages :
           getMessagesSettled(req, loaded, k)
    \/ \E req \in pending, created \in BOOLEAN : createConversationSettled(req, created)
    \/ \E content \in Inputs : handleSendMessage(content)
    \/ \E req \in pending, outcome \in SendOutcomes :
           handleSendMessageSettled(req, outcome)
    \/ \E i \in DOMAIN messages : handleRegenerateMessage(messages[i].id)
    \/ \E req \in pending, outcome \in SendOutcomes :
           handleRegenerateMessageSettled(req, outcome)
    \/ StreamingFinished
    \/ onMinimize
    \/ ToggleVoiceOutput

Settles ==
    \/ \E req \in pending, found \in BOOLEAN : getConversationSettled(req, found)
    \/ \E req \in pending, loaded \in BOOLEAN, k \in 0..MaxMessages :
           getMessagesSettled(req, loaded, k)
    \/ \E req \in pending, created \in BOOLEAN : createConversationSettled(req, created)
    \/ \E req \in pending, outcome \in SendOutcomes :
           handleSendMessageSettled(req, outcome)
    \/ \E req \in pending, outcome \in SendOutcomes :
           handleRegenerateMessageSettled(req, outcome)

SpecWindow ==
    /\ InitWidget
    /\ [][NextWindow]_vars
    /\ WF_vars(Settles)
    /\ WF_vars(StreamingFinished)

\* ---------------------------------------------------------------------------
\* Properties of the chat widget
\* ---------------------------------------------------------------------------

Shown(list) == { list[i] : i \in DOMAIN list }

UserCount(list) == Cardinality({ i \in DOMAIN list : list[i].role = "user" })

\* C1: regenerating a displayed assistant message m that follows a user
\* message, whether or not m is the last message, removes exactly m when it is
\* invoked and, when the new answer arrives, adds exactly one new assistant
\* message: every other displayed message is kept and the number of user
\* messages is unchanged.
C1_RegenerateExact ==
    [][/\ \A req \in pending' \ pending :
              req.kind = "regenerate" =>
                  /\ messages' = filter(messages, req.assistantMessageId)
                  /\ Len(messages') = Len(messages) - 1
                  /\ UserCount(messages') = UserCount(messages)
       /\ \A req \in pending \ pending' :
              req.kind = "regenerate" /\ messages' # messages =>
                  /\ Shown(messages) \subseteq Shown(messages')
                  /\ Len(messages') = Len(messages) + 1
                  /\ \A msg \in Shown(messages') \ Shown(messages) :
                         msg.role = "assistant"
                  /\ UserCount(messages') = UserCount(messages)]_vars

\* ---------------------------------------------------------------------------
\* Retry policy
\* ---------------------------------------------------------------------------

\* The stages that call an external service, with the failure each retries.
Retried == [Embedding |-> "transient", Retrieving |-> "transient",
            Generating |-> "rate_limited"]

Stages == DOMAIN Retried

\* Run r makes one more call of the same stage after a failed one.
Retries(r) ==
    /\ run[r].state \in Stages
    /\ run'[r].state = run[r].state
    /\ run'[r].attempts = run[r].attempts + 1

\* The call of run r fails for good.
GivesUp(r) == run[r].state \in Stages /\ run'[r].state = "Failed"

\* What holds of every stage: a retry follows only the failure the stage
\* retries, after a longer delay than the retry before, and no stage makes
\* more than 3 calls; a failure the stage retries ends the run only with the
\* third call.
RetryBounded(r) ==
    /\ Retries(r) =>
           /\ run'[r].last = Retried[run[r].state]
           /\ run'[r].attempts + 1 <= MaxAttempts
           /\ run'[r].delay > run[r].delay
    /\ GivesUp(r) =>
           /\ run[r].attempts + 1 <= MaxAttempts
           /\ run'[r].last = Retried[run[r].state] =>
                  run[r].attempts + 1 = MaxAttempts

\* C11 as stated: generation is retried only on a rate-limit response, with
\* at most 3 attempts and increasing delay; any other generation error moves
\* the run to Failed after exactly one generation call; embedding and
\* retrieval are retried at most 3 times and only on transient failures.
C11_AsStated ==
    [][\A r \in RunIds :
          /\ RetryBounded(r)
          /\ GivesUp(r) /\ run[r].state = "Generating" /\ run'[r].last = "error" =>
                 run[r].attempts + 1 = 1]_vars

\* C11: generation is retried only on a rate-limit response, with at most 3
\* attempts and increasing delay; any other generation error moves the run to
\* Failed with the call that met it, which is the first call unless rate-limit
\* responses came before; embedding and retrieval are retried at most 3 times
\* and only on transient failures.
C11_RetryPolicy ==
    /\ [](\A r \in RunIds :
            /\ run[r].attempts < MaxAttempts
            /\ run[r].state \in Stages /\ run[r].attempts > 0 =>
                   run[r].last = Retried[run[r].state]
            /\ run[r].state = "Failed" /\ run[r].why = "GenerationUnavailable" =>
                   run[r].last = "error"
            /\ run[r].state = "Failed" /\ run[r].why = "GenerationRateLimited" =>
                   run[r].last = "rate_limited")
    /\ [][\A r \in RunIds :
            /\ RetryBounded(r)
            /\ run[r].state = "Generating" /\ run'[r].last = "error" =>
                   GivesUp(r)]_vars

C11_Witness ==
    \E r, q \in RunIds :
        /\ run[r].state = "Failed"
        /\ run[r].why = "GenerationRateLimited"
        /\ run[q].state = "Generating"
        /\ run[q].attempts = MaxAttempts - 1
        /\ run[q].delay = backoff(MaxAttempts - 1)

\* ---------------------------------------------------------------------------
\* Persistence errors
\* ---------------------------------------------------------------------------

\* C12: a question whose user message could not be persisted never reaches
\* the generation model; when the assistant message cannot be persisted after
\* a successful generation, the caller still receives the answer and the
\* persisted history lacks that assistant turn.
C12_PersistenceErrors ==
    /\ [](\A r \in RunIds :
            /\ r \in Started /\ ~HasMessage(r, "user") => run[r].calls = {}
            /\ run[r].state = "Failed" /\ run[r].why = "PersistenceError" =>
                   /\ "generate" \notin run[r].calls
                   /\ run[r].answer = "none"
            /\ run[r].state \in {"Persisted", "Returned"} =>
                   run[r].answer # "none")
    /\ [][\A r \in RunIds :
            run[r].state = "Persisted" /\ run'[r] # run[r] =>
                /\ run'[r].state = "Returned"
                /\ run'[r].answer = run[r].answer
                /\ store' = store => ~HasMessage(r, "assistant")']_vars

C12_Witness ==
    \E r, q \in RunIds :
        /\ run[r].state = "Returned"
        /\ run[r].answer # "none"
        /\ HasMessage(r, "user")
        /\ ~HasMessage(r, "assistant")
        /\ run[q].state = "Failed"
        /\ run[q].why = "PersistenceError"
        /\ ~HasMessage(q, "user")

\* ---------------------------------------------------------------------------
\* Causal order of messages
\* ---------------------------------------------------------------------------

\* In the store, every assistant message comes after the user message of the
\* same run.
StoreCausal ==
    \A i \in DOMAIN store :
        store[i].role = "assistant" =>
            \E j \in 1..(i - 1) :
                /\ store[j].role = "user"
                /\ store[j].run = store[i].run
                /\ store[j].conv = store[i].conv

\* In the displayed list, every assistant message comes after a user message
\* asking the question it answers.
DisplayCausal ==
    \A i \in DOMAIN messages :
        messages[i].role = "assistant" =>
            \E j \in 1..(i - 1) :
                /\ messages[j].role = "user"
                /\ messages[j].content = messages[i].content

\* C13: in the persisted messages of every conversation and in the widget's
\* displayed list, every assistant message appears after the user message it
\* answers, under any interleaving of concurrent questions.
C13_CausalOrder == StoreCausal /\ DisplayCausal

\* ---------------------------------------------------------------------------
\* Regeneration and the persisted conversation
\* ---------------------------------------------------------------------------

\* listMessages: the persisted messages of a conversation.
listMessages(conv) == server.history[conv]

\* C14: a regeneration adds no user message to the persisted conversation:
\* listMessages returns as many user messages after a regenerate triggered
\* from the chat widget as before it.
C14_RegenerateAddsNoUserMessage ==
    [][\A req \in pending \ pending' :
          req.kind = "regenerate" =>
              UserCount(listMessages(req.conv)') = UserCount(listMessages(req.conv))]_vars

\* ---------------------------------------------------------------------------
\* Order of the assembled context
\* ---------------------------------------------------------------------------

\* The segments of the context that come from candidates.
CandidateSegments(r) ==
    IF run[r].selected = <<>> THEN run[r].context ELSE Tail(run[r].context)

InFlight(c) ==
    { req \in pending : req.kind \in {"send", "regenerate"} /\ req.conv = c }

\* C16: the widget serializes the requests of a conversation: while one
\* sendMessage call of it is in flight, neither the input form nor the
\* welcome cards nor the Regenerate button issue another.
C16_SingleFlight ==
    \A c \in Conversations : Cardinality(InFlight(c)) <= 1

\* ---------------------------------------------------------------------------
\* The saved conversation id
\* ---------------------------------------------------------------------------

\* C17: whenever no request is in flight and the widget has a conversation,
\* the id stored in localStorage under 'far_conversation_id' is the widget's
\* current conversationId, so that a reload resumes the conversation the user
\* was in.
C17_StoredIdIsCurrent ==
    (pending = {} /\ conversationId # Null) => localStorage = conversationId

\* ---------------------------------------------------------------------------
\* Voice output
\* ---------------------------------------------------------------------------

\* A message is handed to the speech synthesis in this step.
ReadAloud == lastSpokenMessageIdRef' # 0 /\ lastSpokenMessageIdRef' # lastSpokenMessageIdRef

\* Every response that is owed to the listener is read aloud in the end.
EventuallyReadAloud == []<>(owed = 0)

\* No message is handed to the speech synthesis a second time.
NeverReadTwice == [][ReadAloud => lastSpokenMessageIdRef' \notin spoken]_vars

\* C18: while the speaker toggle is enabled, every new assistant response
\* received from a send or regenerate is eventually read aloud, and no message
\* is read aloud twice.
C18_VoiceOutput == EventuallyReadAloud /\ NeverReadTwice

\* ---------------------------------------------------------------------------
\* The reveal of a message and the automatic scroll
\* ---------------------------------------------------------------------------

\* The character-by-character reveal of the streaming message starts in this
\* step.
RevealStarts ==
    /\ ~isStreamingActive
    /\ isStreamingActive'

\* C19: the reveal of an assistant message runs at most once: a message that
\* has been shown in full never streams again, also after the window is
\* minimized and expanded or closed and reopened.
C19_RevealOnce ==
    [][RevealStarts => ~(shownInFull /\ streamingMessageId' = streamingMessageId)]_vars

\* A send or a regenerate adds a message in this step: its response arrives
\* and the displayed list grows.
SendAddsMessage ==
    /\ \E req \in pending \ pending' : req.kind \in {"send", "regenerate"}
    /\ Len(messages') > Len(messages)

\* C20: the window scrolls to the bottom automatically only when a send or a
\* regenerate adds a message; opening the window and loading the history of a
\* saved conversation never scroll.
C20_ScrollOnlyOnNewMessage == [][scrollIntoView => SendAddsMessage]_vars

\* ---------------------------------------------------------------------------
\* The page audio reader (TextToSpeech)
\* ---------------------------------------------------------------------------

MaxTimers == 2

\* Some of the speeds of the selector, in percent.
Rates == {50, 100, 200}

\* The backend at rest and the chat widget closed: the state of everything
\* else while the page's own components run.
PageOnly ==
    /\ now = 0
    /\ config \in [maxRequests : {DefaultMaxRequests}, windowMinutes : {DefaultWindowMinutes},
                   topK : {DefaultTopK}, scoreThreshold : {DefaultScoreThreshold},
                   maxContextChars : {MaxBudget}]
    /\ hitLog = EmptyLogs
    /\ checkLog = <<>>
    /\ altLog = EmptyLogs
    /\ isoLog = <<>>
    /\ workload = NoWorkload
    /\ run = [r \in RunIds |-> IdleRun]
    /\ store = <<>>
    /\ Mounted
    /\ localStorage = Null
    /\ server = FreshServer

notReader ==
    <<now, config, limiterVars, isoVars, pipelineVars, widgetVars, voiceInputVars,
      apiVars>>

\* speechSynthesis.cancel(): the utterance is dropped and its end or error
\* event is still to be delivered. Whether the paused flag survives a cancel
\* depends on the browser (resets).
cancel(synth, resets) ==
    [utterance |-> NoUtterance, speaking |-> FALSE,
     paused |-> IF resets THEN FALSE ELSE synth.paused,
     interrupted |-> synth.interrupted \/ synth.utterance # NoUtterance]

\* handlePlay as the closure of one render runs it, with that render's
\* speechRate and isPaused. The page has an article with text.
handlePlay(rate, paused, resets) ==
    IF paused
    THEN /\ speechSynthesis' = [speechSynthesis EXCEPT !.paused = FALSE]
         /\ isPaused' = FALSE
         /\ isPlaying' = TRUE
    ELSE /\ speechSynthesis' = [cancel(speechSynthesis, resets) EXCEPT !.utterance = rate]
         /\ UNCHANGED <<isPlaying, isPaused>>

\* The Play button (shown while neither playing nor paused) and the Resume
\* button (shown while paused).
PlayButton ==
    /\ ~isPlaying
    /\ \E resets \in BOOLEAN : handlePlay(speechRate, isPaused, resets)
    /\ UNCHANGED <<speechRate, timers>>
    /\ UNCHANGED notReader

\* The Pause button, shown while playing.
handlePause ==
    /\ isPlaying
    /\ IF speechSynthesis.speaking /\ ~speechSynthesis.paused
       THEN /\ speechSynthesis' = [speechSynthesis EXCEPT !.paused = TRUE]
            /\ isPaused' = TRUE
            /\ isPlaying' = FALSE
       ELSE UNCHANGED <<speechSynthesis, isPaused, isPlaying>>
    /\ UNCHANGED <<speechRate, timers>>
    /\ UNCHANGED notReader

\* The Stop button, enabled while playing or paused.
handleStop ==
    /\ isPlaying \/ isPaused
    /\ \E resets \in BOOLEAN : speechSynthesis' = cancel(speechSynthesis, resets)
    /\ isPlaying' = FALSE
    /\ isPaused' = FALSE
    /\ UNCHANGED <<speechRate, timers>>
    /\ UNCHANGED notReader

\* The speed selector. While playing or paused it stops the speech and
\* schedules handlePlay; the scheduled call is the handlePlay of the current
\* render, which holds the speechRate and isPaused of before the change.
handleRateChange(newRate) ==
    /\ newRate # speechRate
    /\ speechRate' = newRate
    /\ IF isPlaying \/ isPaused
       THEN /\ Len(timers) < MaxTimers
            /\ \E resets \in BOOLEAN : speechSynthesis' = cancel(speechSynthesis, resets)
            /\ isPlaying' = FALSE
            /\ isPaused' = FALSE
            /\ timers' = Append(timers, [speechRate |-> speechRate, isPaused |-> isPaused])
       ELSE UNCHANGED <<speechSynthesis, isPlaying, isPaused, timers>>
    /\ UNCHANGED notReader

\* The timeout of a speed change expires.
RestartAfterRateChange ==
    /\ timers # <<>>
    /\ timers' = Tail(timers)
    /\ \E resets \in BOOLEAN :
           handlePlay(Head(timers).speechRate, Head(timers).isPaused, resets)
    /\ UNCHANGED speechRate
    /\ UNCHANGED notReader

\* utterance.onstart: the queued utterance begins to be spoken.
onstart ==
    /\ speechSynthesis.utterance # NoUtterance
    /\ ~speechSynthesis.speaking
    /\ ~speechSynthesis.paused
    /\ speechSynthesis' = [speechSynthesis EXCEPT !.speaking = TRUE]
    /\ isPlaying' = TRUE
    /\ isPaused' = FALSE
    /\ UNCHANGED <<speechRate, timers>>
    /\ UNCHANGED notReader

\* utterance.onend and utterance.onerror: the utterance is over.
onend ==
    /\ speechSynthesis.utterance # NoUtterance
    /\ speechSynthesis.speaking
    /\ ~speechSynthesis.paused
    /\ speechSynthesis' = [speechSynthesis EXCEPT !.utterance = NoUtterance,
                                                  !.speaking = FALSE]
    /\ isPlaying' = FALSE
    /\ isPaused' = FALSE
    /\ UNCHANGED <<speechRate, timers>>
    /\ UNCHANGED notReader

\* The end or error event of an utterance that was cancelled is delivered.
oninterrupted ==
    /\ speechSynthesis.interrupted
    /\ speechSynthesis' = [speechSynthesis EXCEPT !.interrupted = FALSE]
    /\ isPlaying' = FALSE
    /\ isPaused' = FALSE
    /\ UNCHANGED <<speechRate, timers>>
    /\ UNCHANGED notReader

InitReader ==
    /\ PageOnly
    /\ PageLoaded

NextReader ==
    \/ PlayButton
    \/ handlePause
    \/ handleStop
    \/ \E newRate \in Rates : handleRateChange(newRate)
    \/ RestartAfterRateChange
    \/ onstart
    \/ onend
    \/ oninterrupted

SpecReader == InitReader /\ [][NextReader]_vars

\* C21: a speed change made while the reader is playing or paused restarts
\* the reading at the new rate: when the scheduled restart runs, an utterance
\* is handed to the speech synthesis and its rate is the selected speechRate.
C21_RestartAtNewRate ==
    [][Len(timers') < Len(timers) =>
           /\ speechSynthesis'.utterance # NoUtterance
           /\ speechSynthesis'.utterance = speechRate']_vars

\* C29: isPlaying and isPaused are never both true, and whenever the reader
\* shows Playing, an utterance has been handed to the speech synthesis and has
\* neither ended nor been cancelled.
C29_ReaderState ==
    /\ ~(isPlaying /\ isPaused)
    /\ isPlaying => speechSynthesis.utterance # NoUtterance

\* ---------------------------------------------------------------------------
\* Voice input: normalizeFARSectionNumbers
\* ---------------------------------------------------------------------------
\* A transcript is a sequence of words. The normalized text is a sequence of
\* symbols: one symbol per digit, ".", "-", " ", and one symbol per remaining
\* word.

MaxSpokenDigits == 3

Digits == {"0", "1", "2", "3", "4", "5", "6", "7", "8", "9"}

\* numberMap, each value written as its digits.
numberMap ==
    [zero |-> <<"0">>, one |-> <<"1">>, two |-> <<"2">>, three |-> <<"3">>,
     four |-> <<"4">>, five |-> <<"5">>, six |-> <<"6">>, seven |-> <<"7">>,
     eight |-> <<"8">>, nine |-> <<"9">>, ten |-> <<"1", "0">>,
     eleven |-> <<"1", "1">>, twelve |-> <<"1", "2">>, thirteen |-> <<"1", "3">>,
     fourteen |-> <<"1", "4">>, fifteen |-> <<"1", "5">>, sixteen |-> <<"1", "6">>,
     seventeen |-> <<"1", "7">>, eighteen |-> <<"1", "8">>, nineteen |-> <<"1", "9">>,
     twenty |-> <<"2", "0">>, thirty |-> <<"3", "0">>, forty |-> <<"4", "0">>,
     fifty |-> <<"5", "0">>, sixty |-> <<"6", "0">>, seventy |-> <<"7", "0">>,
     eighty |-> <<"8", "0">>, ninety |-> <<"9", "0">>]

\* The words of spelledNumberRegex.
Tens == {"twenty", "thirty", "forty", "fifty", "sixty", "seventy", "eighty", "ninety"}
Ones == {"one", "two", "three", "four", "five", "six", "seven", "eight", "nine"}

\* The symbols of one word after the word-level replacements: a spelled-out
\* number becomes its digits, "point" a dot, "dash" and "hyphen" a dash.
WordSymbols(word) ==
    IF word \in DOMAIN numberMap THEN numberMap[word]
    ELSE IF word = "point" THEN <<".">>
    ELSE IF word \in {"dash", "hyphen"} THEN <<"-">>
    ELSE <<word>>

RECURSIVE SpelledNumbers(_, _)
\* The word-level replacements from word i on. A tens word followed by a ones
\* word is their sum (tens digit, ones digit); the words stay separated by
\* single blanks.
SpelledNumbers(words, i) ==
    IF i > Len(words) THEN <<>>
    ELSE LET pair == /\ i < Len(words)
                     /\ words[i] \in Tens
                     /\ words[i + 1] \in Ones
             here == IF pair
                     THEN <<numberMap[words[i]][1], numberMap[words[i + 1]][1]>>
                     ELSE WordSymbols(words[i])
             next == IF pair THEN i + 2 ELSE i + 1
         IN  here \o (IF next > Len(words) THEN <<>>
                      ELSE <<" ">> \o SpelledNumbers(words, next))

RECURSIVE DigitsEnd(_, _)
\* The index after the digits that start at i (i itself when there is none).
DigitsEnd(text, i) ==
    IF i <= Len(text) /\ text[i] \in Digits THEN DigitsEnd(text, i + 1) ELSE i

RECURSIVE SpacesEnd(_, _)
\* The index after the blanks that start at i.
SpacesEnd(text, i) ==
    IF i <= Len(text) /\ text[i] = " " THEN SpacesEnd(text, i + 1) ELSE i

\* The symbols from i up to, not including, j.
Piece(text, i, j) == SubSeq(text, i, j - 1)

RECURSIVE CloseUp(_, _, _)
\* replace(/(\d+)\s*SEP\s*(\d+)/g, '$1SEP$2') from i on: left to right, each
\* match is replaced and the scan goes on after it.
CloseUp(text, sep, i) ==
    IF i > Len(text) THEN <<>>
    ELSE LET a == DigitsEnd(text, i)
             b == SpacesEnd(text, a)
             c == SpacesEnd(text, b + 1)
             d == DigitsEnd(text, c)
         IN  IF a > i /\ b <= Len(text) /\ text[b] = sep /\ d > c
             THEN Piece(text, i, a) \o <<sep>> \o Piece(text, c, d) \o CloseUp(text, sep, d)
             ELSE <<text[i]>> \o CloseUp(text, sep, i + 1)

RECURSIVE JoinDecimals(_, _)
\* replace(/(\d+)\.(\d+)\s+(\d+)/g, '$1.$2$3') from i on.
JoinDecimals(text, i) ==
    IF i > Len(text) THEN <<>>
    ELSE LET a == DigitsEnd(text, i)
             b == DigitsEnd(text, a + 1)
             c == SpacesEnd(text, b)
             d == DigitsEnd(text, c)
         IN  IF /\ a > i /\ a <= Len(text) /\ text[a] = "."
                /\ b > a + 1 /\ c > b /\ d > c
             THEN Piece(text, i, b) \o Piece(text, c, d) \o JoinDecimals(text, d)
             ELSE <<text[i]>> \o JoinDecimals(text, i + 1)

RECURSIVE MissingDot(_, _, _, _)
\* replace(/WORD\s+(\d+)\s+(\d{least,})/gi, 'WORD $1.$2') from i on, for the
\* word "section" with least = 3 and the word "part" with least = 1.
MissingDot(text, word, least, i) ==
    IF i > Len(text) THEN <<>>
    ELSE LET a == SpacesEnd(text, i + 1)
             b == DigitsEnd(text, a)
             c == SpacesEnd(text, b)
             d == DigitsEnd(text, c)
         IN  IF /\ text[i] = word /\ a > i + 1 /\ b > a /\ c > b /\ d - c >= least
             THEN <<word, " ">> \o Piece(text, a, b) \o <<".">> \o Piece(text, c, d)
                      \o MissingDot(text, word, least, d)
             ELSE <<text[i]>> \o MissingDot(text, word, least, i + 1)

\* String.prototype.padStart(3, '0').
padStart(digits) ==
    IF Len(digits) = 1 THEN <<"0", "0">> \o digits
    ELSE IF Len(digits) = 2 THEN <<"0">> \o digits
    ELSE digits

RECURSIVE LeadingZeros(_, _)
\* replace(/(\d+)\.(\d{1,2})(?=-)/g, ...) from i on: a subsection of one or
\* two digits that a dash follows is padded to three digits.
LeadingZeros(text, i) ==
    IF i > Len(text) THEN <<>>
    ELSE LET a == DigitsEnd(text, i)
             b == DigitsEnd(text, a + 1)
         IN  IF /\ a > i /\ a <= Len(text) /\ text[a] = "."
                /\ b - (a + 1) \in {1, 2}
                /\ b <= Len(text) /\ text[b] = "-"
             THEN Piece(text, i, a + 1) \o padStart(Piece(text, a + 1, b))
                      \o LeadingZeros(text, b)
             ELSE <<text[i]>> \o LeadingZeros(text, i + 1)

RECURSIVE SingleSpaces(_, _)
\* replace(/\s+/g, ' ') from i on.
SingleSpaces(text, i) ==
    IF i > Len(text) THEN <<>>
    ELSE IF text[i] = " "
    THEN <<" ">> \o SingleSpaces(text, SpacesEnd(text, i))
    ELSE <<text[i]>> \o SingleSpaces(text, i + 1)

\* String.prototype.trim.
trim(text) ==
    LET first == SpacesEnd(text, 1)
        last == CHOOSE j \in 0..Len(text) :
                    /\ j = 0 \/ text[j] # " "
                    /\ \A k \in (j + 1)..Len(text) : text[k] = " "
    IN  IF first > Len(text) THEN <<>> ELSE SubSeq(text, first, last)

\* normalizeFARSectionNumbers, step by step as the code applies them.
normalizeFARSectionNumbers(words) ==
    LET spelled == SingleSpaces(SpelledNumbers(words, 1), 1)
        dots == CloseUp(spelled, ".", 1)
        dashes == CloseUp(dots, "-", 1)
        joined == JoinDecimals(dashes, 1)
        sections == MissingDot(joined, "section", 3, 1)
        parts == MissingDot(sections, "part", 1, 1)
        padded == LeadingZeros(parts, 1)
    IN  trim(SingleSpaces(padded, 1))

\* The digit words a speaker uses after the point.
DigitWords == {"zero", "one", "six"}

\* Spoken section references: "section", the part number, "point", the digits
\* of the section one by one, and possibly "dash" and the subsection.
SpokenSections ==
    { <<"section">> \o whole \o <<"point">> \o digits \o suffix :
        whole \in {<<"thirty", "two">>, <<"five">>, <<"fifteen">>},
        digits \in UNION { [1..n -> DigitWords] : n \in 1..MaxSpokenDigits },
        suffix \in {<<>>, <<"dash", "five">>} }

notVoiceInput ==
    <<now, config, limiterVars, isoVars, pipelineVars, widgetVars, readerVars, apiVars>>

\* startListening: the recognition hears a section reference.
startListening ==
    /\ ~isListening
    /\ isListening' = TRUE
    /\ transcript' \in SpokenSections
    /\ UNCHANGED inputValue
    /\ UNCHANGED notVoiceInput

\* recognition.onresult: the normalized transcript becomes the input text.
onresult ==
    /\ isListening
    /\ inputValue' = normalizeFARSectionNumbers(transcript)
    /\ isListening' = FALSE
    /\ UNCHANGED transcript
    /\ UNCHANGED notVoiceInput

InitVoiceInput ==
    /\ PageOnly
    /\ PageLoaded

NextVoiceInput ==
    \/ startListening
    \/ onresult

SpecVoiceInput == InitVoiceInput /\ [][NextVoiceInput]_vars

\* C22: normalizeFARSectionNumbers turns a spoken section reference into its
\* written form: the transcript "section thirty two point zero zero six dash
\* five" becomes "section 32.006-5".
C22_Example ==
    (/\ ~isListening
     /\ transcript = <<"section", "thirty", "two", "point", "zero", "zero", "six",
                       "dash", "five">>)
        => inputValue = <<"section", " ", "3", "2", ".", "0", "0", "6", "-", "5">>

\* ---------------------------------------------------------------------------
\* The API client: fetchWithFallback
\* ---------------------------------------------------------------------------

MaxApiCalls == 2

\* The HTTP statuses a backend answers with.
Statuses == {200, 404, 429}

\* The values of the build's backend URL: none, a deployed backend, one of the
\* local defaults.
ConfiguredUrls == {Null, "https://far.example", "http://localhost:8080"}

notApi ==
    <<now, config, limiterVars, isoVars, pipelineVars, widgetVars, readerVars,
      voiceInputVars>>

\* setActiveBaseUrl without the filter.
setActiveBaseUrl_NoFilter(url, urls) ==
    [baseUrl |-> url, preferredBaseUrls |-> <<url>> \o urls]

\* setActiveBaseUrl: the URL moves to the front of the list.
setActiveBaseUrl(url, urls) ==
    [baseUrl |-> url,
     preferredBaseUrls |-> <<url>> \o SelectSeq(urls, LAMBDA candidate : candidate # url)]

\* A call of fetchWithFallback begins: its loop runs over the list of this
\* moment and fetches from the first URL.
fetchWithFallback ==
    /\ Len(calls) < MaxApiCalls
    /\ calls' = Append(calls, [urls |-> preferredBaseUrls, i |-> 1,
                               tried |-> <<preferredBaseUrls[1]>>,
                               state |-> "fetching", status |-> 0])
    /\ UNCHANGED <<configuredBackendUrl, baseUrl, preferredBaseUrls>>
    /\ UNCHANGED notApi

\* The fetch of call k resolves with an HTTP response of any status: the URL
\* becomes the active one and the call returns the response.
FetchResolves(k, status) ==
    /\ calls[k].state = "fetching"
    /\ LET url == calls[k].urls[calls[k].i]
           active == IF url # baseUrl
                     THEN setActiveBaseUrl(url, preferredBaseUrls)
                     ELSE [baseUrl |-> baseUrl, preferredBaseUrls |-> preferredBaseUrls]
       IN  /\ baseUrl' = active.baseUrl
           /\ preferredBaseUrls' = active.preferredBaseUrls
    /\ calls' = [calls EXCEPT ![k].state = "returned", ![k].status = status]
    /\ UNCHANGED configuredBackendUrl
    /\ UNCHANGED notApi

\* The fetch of call k rejects (network error): the loop goes on with the
\* next URL of its list, or the call throws the last error.
FetchRejects(k) ==
    /\ calls[k].state = "fetching"
    /\ calls' = IF calls[k].i < Len(calls[k].urls)
                THEN [calls EXCEPT ![k].i = @ + 1,
                                   ![k].tried = Append(@, calls[k].urls[calls[k].i + 1])]
                ELSE [calls EXCEPT ![k].state = "threw"]
    /\ UNCHANGED <<configuredBackendUrl, baseUrl, preferredBaseUrls>>
    /\ UNCHANGED notApi

InitApi ==
    /\ PageOnly
    /\ ReaderMounted
    /\ VoiceInputIdle
    /\ configuredBackendUrl \in ConfiguredUrls
    /\ ApiConstructed

NextApi ==
    \/ fetchWithFallback
    \/ \E k \in DOMAIN calls, status \in Statuses : FetchResolves(k, status)
    \/ \E k \in DOMAIN calls : FetchRejects(k)

SpecApi == InitApi /\ [][NextApi]_vars

NoDuplicates(urls) == \A i, j \in DOMAIN urls : urls[i] = urls[j] => i = j

Range(urls) == { urls[i] : i \in DOMAIN urls }

\* The distinct base URLs of this build.
BaseUrls ==
    Range(DEFAULT_LOCAL_BACKEND_URLS)
        \cup (IF configuredBackendUrl # Null THEN {configuredBackendUrl} ELSE {})

\* C28: a call tries the preferred base URLs in order, each at most once, so
\* it makes at most as many fetches as there are distinct base URLs; it throws
\* only after every URL has failed; and it returns the first response obtained
\* whatever its status, making that URL the active one.
C28_Fallback ==
    /\ [](\A k \in DOMAIN calls :
            /\ calls[k].tried = SubSeq(calls[k].urls, 1, calls[k].i)
            /\ NoDuplicates(calls[k].tried)
            /\ Len(calls[k].tried) <= Cardinality(BaseUrls)
            /\ calls[k].state = "threw" => Range(calls[k].tried) = BaseUrls)
    /\ [][\A k \in DOMAIN calls :
            (calls[k].state = "fetching" /\ calls'[k].state = "returned")
                => /\ baseUrl' = calls[k].tried[Len(calls[k].tried)]
                   /\ calls'[k].tried = calls[k].tried]_vars
    /\ [][\A k \in DOMAIN calls :
            calls[k].state # "fetching" => calls'[k] = calls[k]]_vars

\* A call has returned a non-2xx response from its second URL, after the
\* fetch from the first one failed.
C28_Witness ==
    \E k \in DOMAIN calls :
        /\ calls[k].state = "returned"
        /\ calls[k].status # 200
        /\ Len(calls[k].tried) = 2
        /\ baseUrl = calls[k].tried[2]

\* C30: baseUrl is the first element of preferredBaseUrls, and
\* preferredBaseUrls is a duplicate-free permutation of its initial contents.
C30_ActiveUrlFirst ==
    /\ baseUrl = preferredBaseUrls[1]
    /\ NoDuplicates(preferredBaseUrls)
    /\ Range(preferredBaseUrls) = BaseUrls
    /\ Len(preferredBaseUrls) = Cardinality(BaseUrls)

\* Two calls that ran concurrently have both moved their URL to the front.
C30_Witness ==
    /\ Len(calls) = 2
    /\ \A k \in DOMAIN calls : calls[k].state = "returned" /\ Len(calls[k].tried) >= 2
    /\ calls[1].urls = calls[2].urls
    /\ calls[1].tried # calls[2].tried

\* ---------------------------------------------------------------------------
\* Failed and overlapping requests of the chat widget
\* ---------------------------------------------------------------------------

\* The texts displayed for a sendMessage failure whose response carried no
\* detail.
GenericFailureTexts == {"Failed to send message: statusText", "Failed to fetch"}

C24_MessagesOfCurrentConversation ==
    \A i \in DOMAIN messages : messages[i].conversation_id = conversationId

\* C25: the initial history load removes no displayed message: the messages
\* that a successful send appended while initializeConversation awaited
\* getMessages are still displayed once the history has been loaded.
C25_HistoryLoadKeepsSent ==
    [][\A req \in pending, k \in 0..MaxMessages :
          getMessagesSettled(req, TRUE, k)
              => \A i \in DOMAIN messages :
                    \E j \in DOMAIN messages' : messages'[j] = messages[i]]_vars

\* C26: isLoading is true exactly while a sendMessage call issued by
\* handleSendMessage or handleRegenerateMessage awaits its response.
C26_LoadingIffInFlight ==
    isLoading <=> (\E c \in Conversations : InFlight(c) # {})

\* The list without its i-th message.
Without(list, i) == SubSeq(list, 1, i - 1) \o SubSeq(list, i + 1, Len(list))

====
